---- MODULE Spec2Model ----
(***************************************************************************)
(* State-machine model of the semantic screenshot search engine            *)
(* (src/search_engine.py, class SearchEngine) together with the document   *)
(* records produced by src/processor.py.                                   *)
(*                                                                         *)
(* Texts are sequences of one-character strings, so that str.strip() and   *)
(* slicing are computed rather than assumed.  The embedding model and the  *)
(* vector store are external collaborators: every call to them may throw,  *)
(* which the actions draw from a failure plan.                             *)
(***************************************************************************)
EXTENDS Integers, Sequences, FiniteSets, TLC

\* ------------------------------------------------------------------ bounds
MaxBatch == 2       \* longest list handed to index_batch
MaxTopK == 2        \* largest top_k handed to search (smallest is -1)
DistScale == 100    \* fixed-point resolution of cosine distances (1.0 = DistScale)
MaxCalls == 2       \* calls each thread makes on the shared engine

\* ------------------------------------------------------- program constants
PreviewLen == 500

\* ------------------------------------------------------------------- texts
Whitespace == {" ", "\n"}

RECURSIVE LStrip(_)
LStrip(s) ==
    IF s = <<>> THEN <<>>
    ELSE IF Head(s) \in Whitespace THEN LStrip(Tail(s)) ELSE s

RECURSIVE RStrip(_)
RStrip(s) ==
    IF s = <<>> THEN <<>>
    ELSE IF s[Len(s)] \in Whitespace THEN RStrip(SubSeq(s, 1, Len(s) - 1)) ELSE s

\* str.strip()
Strip(s) == RStrip(LStrip(s))

\* a mutant of Prefix: the slice is one character longer
PrefixLonger(s, n) == SubSeq(s, 1, IF Len(s) < n + 1 THEN Len(s) ELSE n + 1)

\* s[:n]
Prefix(s, n) == SubSeq(s, 1, IF Len(s) < n THEN Len(s) ELSE n)

\* bool(s) of a string
Truthy(s) == s # <<>>

\* a mutant of HasText: the text is not stripped
HasTextNoStrip(document) == Truthy(document.combined_text)

\* `document.get('combined_text', '').strip()` as a condition
HasText(document) == Truthy(Strip(document.combined_text))

\* ------------------------------------------------------------- documents
\* A path is its sequence of components; os.path.basename is the last one.
Basename(path) == path[Len(path)]

\* process_image, normal return
ProcessedDoc(path, ocr, vision) ==
    [path |-> path, filename |-> Basename(path), ocr_text |-> ocr,
     vision_description |-> vision,
     combined_text |-> ocr \o <<"\n", "\n">> \o vision]

\* process_image, return of the except branch
FailedDoc(path) ==
    [path |-> path, filename |-> Basename(path), ocr_text |-> <<>>,
     vision_description |-> <<>>, combined_text |-> <<>>]

PathA == <<"shots", "a.png">>
PathB == <<"shots", "b.png">>

\* The documents handed to the engine: for a.png a screenshot without any
\* text, one with OCR text only and one with a description only; for b.png a
\* screenshot with the OCR text of a.png, and an image that failed to load.
Docs ==
    {ProcessedDoc(PathA, <<>>, <<>>),
     ProcessedDoc(PathA, <<"x">>, <<>>),
     ProcessedDoc(PathA, <<>>, <<"y">>),
     ProcessedDoc(PathB, <<"x">>, <<>>),
     FailedDoc(PathB)}

Batches == UNION {[1..n -> Docs] : n \in 0..MaxBatch}

Queries == {<<"x">>, <<"y">>}
TopKs == (-1)..MaxTopK

\* ------------------------------------------------- embedding model (external)
\* The three load strategies of _ensure_model_loaded, in the order tried.
Strategies == <<"cpu", "default", "trust_remote_code">>

\* the number of occurrences of the character c in the text s
CountOf(c, s) == Cardinality({i \in DOMAIN s : s[i] = c})

\* model.encode(text): a deterministic vector of the text; the constant last
\* component keeps the vector of a text without letters non-zero.
Encode(text) == <<CountOf("x", text), CountOf("y", text), 1>>

Dot(u, v) == u[1] * v[1] + u[2] * v[2] + u[3] * v[3]

ISqrt(n) == CHOOSE r \in 0..n : r * r <= n /\ (r + 1) * (r + 1) > n

\* cosine distance 1 - cos(u, v), in units of 1/DistScale
CosineDistance(u, v) ==
    DistScale - ISqrt((DistScale * DistScale * Dot(u, v) * Dot(u, v))
                          \div (Dot(u, u) * Dot(v, v)))

\* ---------------------------------------------------- vector store (external)
NoEntries == << >>

EmptyCollection == [alive |-> TRUE, entries |-> NoEntries]

\* the collection object after client.delete_collection succeeded
DeletedCollection == [alive |-> FALSE, entries |-> NoEntries]

IsInjective(s) == \A i, j \in DOMAIN s : s[i] = s[j] => i = j

\* collection.add: throws on a deleted collection and on a repeated id in the
\* call; an id the collection already holds keeps its entry.
AddThrows(coll, ids) == ~coll.alive \/ ~IsInjective(ids)

AddEntries(coll, ids, embeddings, metadatas, documents) ==
    LET new == {i \in DOMAIN ids : ids[i] \notin DOMAIN coll.entries}
        at(id) == CHOOSE i \in new : ids[i] = id
    IN [coll EXCEPT !.entries =
            [id \in DOMAIN coll.entries \cup {ids[i] : i \in new} |->
                IF id \in DOMAIN coll.entries THEN coll.entries[id]
                ELSE [embedding |-> embeddings[at(id)],
                      metadata |-> metadatas[at(id)],
                      document |-> documents[at(id)]]]]

\* collection.query: throws on a deleted collection and for n_results <= 0
QueryThrows(coll, n) == ~coll.alive \/ n <= 0

\* the orders in which the store may rank its entries for a query embedding:
\* increasing cosine distance, ties in any order
RankedOrders(coll, q) ==
    LET ids == DOMAIN coll.entries
        d(id) == CosineDistance(q, coll.entries[id].embedding)
    IN {s \in [1..Cardinality(ids) -> ids] :
            /\ IsInjective(s)
            /\ \A i, j \in DOMAIN s : i < j => d(s[i]) <= d(s[j])}

Min(a, b) == IF a < b THEN a ELSE b

Max(a, b) == IF a > b THEN a ELSE b

\* the result of collection.query for one ranking: the first n entries
QueryResult(coll, q, n, order) ==
    LET m == Min(n, Len(order))
    IN [metadatas |-> [i \in 1..m |-> coll.entries[order[i]].metadata],
        distances |-> [i \in 1..m |->
                          CosineDistance(q, coll.entries[order[i]].embedding)]]

\* --------------------------------------------------------------- the engine
VARIABLES
    model,          \* self.model: "None" or "Loaded"
    collection,     \* self.collection: the "screenshots" collection of self.client
    indexed_docs,   \* self.indexed_docs: doc id -> document
    doc_count,      \* self.doc_count
    last,           \* the last call: its arguments, return value and collaborator calls
    processor,      \* the ScreenshotProcessor: self.client, self.vision_cache
    vision_log,     \* the vision API calls made so far and the last processor call
    threads         \* per thread: the call it is in, its position and its locals

vars ==
    <<model, collection, indexed_docs, doc_count, last, processor, vision_log,
      threads>>

\* the engine's fields as one value, for the operators below
Engine ==
    [model |-> model, collection |-> collection,
     indexed_docs |-> indexed_docs, doc_count |-> doc_count]

\* what a call did: the engine after it, the value returned, whether an
\* exception reached the caller, the load strategies tried, the number of
\* encode calls, the store calls made, the collaborator that threw and what
\* the call worked on
Outcome(e, ret, raised, loads, encodes, calls, thrower, info) ==
    [engine |-> e, ret |-> ret, raised |-> raised, loads |-> loads,
     encodes |-> encodes, calls |-> calls, thrower |-> thrower, info |-> info]

\* a mutant of ensure_model_loaded: the last except branch does not re-raise
ensure_model_loaded_swallow(m, nfail) ==
    IF m # "None" THEN [model |-> m, attempts |-> <<>>, raised |-> FALSE]
    ELSE [model |-> IF nfail < Len(Strategies) THEN "Loaded" ELSE "None",
          attempts |-> [i \in 1..Min(nfail + 1, Len(Strategies)) |->
                          [strategy |-> Strategies[i], ok |-> i > nfail]],
          raised |-> FALSE]

\* a mutant of ensure_model_loaded: the default-device load is tried first
ensure_model_loaded_default_first(m, nfail) ==
    LET order == <<"default", "cpu", "trust_remote_code">>
    IN  IF m # "None" THEN [model |-> m, attempts |-> <<>>, raised |-> FALSE]
        ELSE [model |-> IF nfail < Len(order) THEN "Loaded" ELSE "None",
              attempts |-> [i \in 1..Min(nfail + 1, Len(order)) |->
                              [strategy |-> order[i], ok |-> i > nfail]],
              raised |-> nfail >= Len(order)]

\* a mutant of ensure_model_loaded: a chain that failed is remembered and not
\* run again
ensure_model_loaded_once(m, nfail) ==
    IF m # "None" THEN [model |-> m, attempts |-> <<>>, raised |-> m = "Failed"]
    ELSE [model |-> IF nfail < Len(Strategies) THEN "Loaded" ELSE "Failed",
          attempts |-> [i \in 1..Min(nfail + 1, Len(Strategies)) |->
                          [strategy |-> Strategies[i], ok |-> i > nfail]],
          raised |-> nfail >= Len(Strategies)]

\* a mutant of ensure_model_loaded: no `if self.model is None`, the chain
\* runs on every call
ensure_model_loaded_always(m, nfail) ==
    [model |-> IF nfail < Len(Strategies) THEN "Loaded" ELSE "None",
     attempts |-> [i \in 1..Min(nfail + 1, Len(Strategies)) |->
                     [strategy |-> Strategies[i], ok |-> i > nfail]],
     raised |-> nfail >= Len(Strategies)]

\* _ensure_model_loaded; nfail is the number of leading strategies that throw.
\* attempts: the SentenceTransformer constructions made, in order, each with
\* whether it returned (ok) or threw.
ensure_model_loaded(m, nfail) ==
    IF m # "None" THEN [model |-> m, attempts |-> <<>>, raised |-> FALSE]
    ELSE [model |-> IF nfail < Len(Strategies) THEN "Loaded" ELSE "None",
          attempts |-> [i \in 1..Min(nfail + 1, Len(Strategies)) |->
                          [strategy |-> Strategies[i], ok |-> i > nfail]],
          raised |-> nfail >= Len(Strategies)]

\* a mutant of generate_doc_id: only the directory of the path is hashed
generate_doc_id_dir(path) == <<"md5", <<path[1]>>>>

\* _generate_doc_id: md5 of the path, injective on the paths of the model
generate_doc_id(path) == <<"md5", path>>

\* the metadata dict built by index_document and index_batch
Metadata(document) ==
    [path |-> document.path,
     filename |-> document.filename,
     ocr_text_preview |->
        IF Truthy(document.ocr_text)
        THEN Prefix(document.ocr_text, PreviewLen) ELSE <<>>,
     vision_preview |->
        IF Truthy(document.vision_description)
        THEN Prefix(document.vision_description, PreviewLen) ELSE <<>>,
     has_ocr |-> Truthy(document.ocr_text),
     has_vision |-> Truthy(document.vision_description)]

\* d[k] = v on a dict
Put(d, k, v) == [x \in DOMAIN d \cup {k} |-> IF x = k THEN v ELSE d[x]]

\* the mutant of AlreadyIndexed: no dedup check
NeverIndexed(doc_id, docs) == FALSE

\* `doc_id in self.indexed_docs`
AlreadyIndexed(doc_id, docs) == doc_id \in DOMAIN docs

\* failure plans of index_document: load = number of load strategies that
\* throw, encode / add = the call throws.  The first exception that leaves
\* its try block ends the call, so a plan names at most one of them.
IndexPlans ==
    {p \in [load : 0..Len(Strategies), encode : BOOLEAN, add : BOOLEAN] :
        /\ p.load = Len(Strategies) => ~p.encode /\ ~p.add
        /\ p.encode => ~p.add}

\* index_document, lines 153-155
TrackIndexed(e, doc_id, document) ==
    [e EXCEPT !.indexed_docs = Put(@, doc_id, document),
              !.doc_count = @ + 1]

\* the mutant of AddFailed: the document is tracked although the add threw
AddFailedTracked(e, doc_id, document) == TrackIndexed(e, doc_id, document)

\* index_document, lines 146-161: collection.add threw before lines 154-155
AddFailed(e, doc_id, document) == e

index_document(e, document, plan) ==
    LET doc_id == generate_doc_id(document.path)
        ld == ensure_model_loaded(e.model, plan.load)
        e1 == [e EXCEPT !.model = ld.model]
        embedding == Encode(document.combined_text)
        added == [e1 EXCEPT !.collection =
                     AddEntries(@, <<doc_id>>, <<embedding>>,
                                <<Metadata(document)>>,
                                <<document.combined_text>>)]
    IN  IF ~HasText(document)
            THEN Outcome(e, FALSE, FALSE, <<>>, 0, <<>>, "none", document)
        ELSE IF AlreadyIndexed(doc_id, e.indexed_docs)
            THEN Outcome(e, TRUE, FALSE, <<>>, 0, <<>>, "none", document)
        ELSE IF ld.raised
            THEN Outcome(e1, FALSE, FALSE, ld.attempts, 0, <<>>, "load", document)
        ELSE IF plan.encode
            THEN Outcome(e1, FALSE, FALSE, ld.attempts, 1, <<>>, "encode", document)
        ELSE IF plan.add \/ AddThrows(e1.collection, <<doc_id>>)
            THEN Outcome(AddFailed(e1, doc_id, document), FALSE, FALSE,
                         ld.attempts, 1, <<"add">>, "add", document)
        ELSE Outcome(TrackIndexed(added, doc_id, document), TRUE, FALSE,
                     ld.attempts, 1, <<"add">>, "none", document)

\* the value in `ret` when the call raised instead of returning
NoReturn == "exception"

\* failure plans of index_batch: encode = the number of the encode call that
\* throws (0: none does)
BatchPlans ==
    {p \in [load : 0..Len(Strategies), encode : 0..MaxBatch, add : BOOLEAN] :
        /\ p.load = Len(Strategies) => p.encode = 0 /\ ~p.add
        /\ p.encode > 0 => ~p.add}

\* the locals of index_batch before its loop (lines 173, 185-188), with the
\* indexed_docs the loop writes to
BatchStart(e) ==
    [ids |-> <<>>, embeddings |-> <<>>, metadatas |-> <<>>, texts |-> <<>>,
     indexed_docs |-> e.indexed_docs, success_count |-> 0,
     encodes |-> 0, raised |-> FALSE]

\* the mutant of BatchStep: the document is not marked as indexed in the loop
BatchStepNoMark(acc, doc, failAt) ==
    LET doc_id == generate_doc_id(doc.path)
    IN  IF AlreadyIndexed(doc_id, acc.indexed_docs) THEN acc
        ELSE IF acc.encodes + 1 = failAt
            THEN [acc EXCEPT !.encodes = @ + 1, !.raised = TRUE]
        ELSE [acc EXCEPT
                !.ids = Append(@, doc_id),
                !.embeddings = Append(@, Encode(doc.combined_text)),
                !.texts = Append(@, doc.combined_text),
                !.metadatas = Append(@, Metadata(doc)),
                !.success_count = @ + 1,
                !.encodes = @ + 1]

\* one pass of the loop body of index_batch (lines 190-210); failAt is the
\* number of the encode call that throws
BatchStep(acc, doc, failAt) ==
    LET doc_id == generate_doc_id(doc.path)
    IN  IF AlreadyIndexed(doc_id, acc.indexed_docs) THEN acc
        ELSE IF acc.encodes + 1 = failAt
            THEN [acc EXCEPT !.encodes = @ + 1, !.raised = TRUE]
        ELSE [acc EXCEPT
                !.ids = Append(@, doc_id),
                !.embeddings = Append(@, Encode(doc.combined_text)),
                !.texts = Append(@, doc.combined_text),
                !.metadatas = Append(@, Metadata(doc)),
                !.indexed_docs = Put(@, doc_id, doc),
                !.success_count = @ + 1,
                !.encodes = @ + 1]

RECURSIVE BatchLoop(_, _, _)
BatchLoop(docs, acc, failAt) ==
    IF docs = <<>> \/ acc.raised THEN acc
    ELSE BatchLoop(Tail(docs), BatchStep(acc, Head(docs), failAt), failAt)

\* a mutant of BatchAdded: the count is not incremented after the add
BatchAddedNoCount(e, acc) ==
    [e EXCEPT !.collection =
                AddEntries(@, acc.ids, acc.embeddings, acc.metadatas, acc.texts)]

\* index_batch, lines 215-221: the bulk add went through
BatchAdded(e, acc) ==
    [e EXCEPT !.collection =
                AddEntries(@, acc.ids, acc.embeddings, acc.metadatas, acc.texts),
              !.doc_count = @ + Len(acc.ids)]

\* a mutant of BatchAddFailed: the count of the batch is taken back
BatchAddFailedRollback(e, acc) == [e EXCEPT !.doc_count = @ - Len(acc.ids)]

\* a mutant of BatchAddFailed: the count is incremented before the add
BatchAddFailedCounted(e, acc) == [e EXCEPT !.doc_count = @ + Len(acc.ids)]

\* index_batch, lines 222-224: the bulk add threw
BatchAddFailed(e, acc) == e

\* a mutant of NothingToIndex: no early return
NothingToIndexNever(valid_docs) == FALSE

\* index_batch, line 178: `if not valid_docs`
NothingToIndex(valid_docs) == valid_docs = <<>>

index_batch(e, documents, plan) ==
    LET valid_docs == SelectSeq(documents, HasText)
        ld == ensure_model_loaded(e.model, plan.load)
        e1 == [e EXCEPT !.model = ld.model]
        acc == BatchLoop(valid_docs, BatchStart(e1), plan.encode)
        e2 == [e1 EXCEPT !.indexed_docs = acc.indexed_docs]
        info == [size |-> Len(documents), valid |-> Len(valid_docs),
                 ids |-> acc.ids]
    IN  IF NothingToIndex(valid_docs)
            THEN Outcome(e, 0, FALSE, <<>>, 0, <<>>, "none",
                         [info EXCEPT !.ids = <<>>])
        ELSE IF ld.raised
            THEN Outcome(e1, NoReturn, TRUE, ld.attempts, 0, <<>>, "load",
                         [info EXCEPT !.ids = <<>>])
        ELSE IF acc.raised
            THEN Outcome(e2, NoReturn, TRUE, ld.attempts, acc.encodes, <<>>,
                         "encode", info)
        ELSE IF acc.ids = <<>>
            THEN Outcome(e2, acc.success_count, FALSE, ld.attempts,
                         acc.encodes, <<>>, "none", info)
        ELSE IF plan.add \/ AddThrows(e2.collection, acc.ids)
            THEN Outcome(BatchAddFailed(e2, acc), 0, FALSE, ld.attempts,
                         acc.encodes, <<"add">>, "add", info)
        ELSE Outcome(BatchAdded(e2, acc), acc.success_count, FALSE,
                     ld.attempts, acc.encodes, <<"add">>, "none", info)

\* failure plans of search
SearchPlans ==
    {p \in [load : 0..Len(Strategies), encode : BOOLEAN, query : BOOLEAN] :
        /\ p.load = Len(Strategies) => ~p.encode /\ ~p.query
        /\ p.encode => ~p.query}

\* the mutant of Confidence: the distance is returned as it is
ConfidenceIsDistance(distance) == distance

\* confidence = 1.0 - distance
Confidence(distance) == DistScale - distance

\* the loop of search over zip(metadatas[0], distances[0]), lines 257-262
FormatResults(results) ==
    [i \in 1..Min(Len(results.metadatas), Len(results.distances)) |->
        <<results.metadatas[i], Confidence(results.distances[i])>>]

\* the mutant of NResults: max in place of min
NResultsMax(top_k, count) == Max(top_k, count)

\* n_results = min(top_k, self.doc_count)
NResults(top_k, count) == Min(top_k, count)

\* the mutant of IndexIsEmpty: no early return
IndexNeverEmpty(e) == FALSE

\* `self.doc_count == 0`
IndexIsEmpty(e) == e.doc_count = 0

\* the mutant of SearchFailed: the exception is re-raised
SearchFailedRaises(e, loads, encodes, calls, thrower, info) ==
    Outcome(e, NoReturn, TRUE, loads, encodes, calls, thrower, info)

\* a mutant of SearchFailed: the except branch resets the count
SearchFailedResets(e, loads, encodes, calls, thrower, info) ==
    Outcome([e EXCEPT !.doc_count = 0], <<>>, FALSE, loads, encodes, calls,
            thrower, info)

\* the except branch of search (lines 266-268)
SearchFailed(e, loads, encodes, calls, thrower, info) ==
    Outcome(e, <<>>, FALSE, loads, encodes, calls, thrower, info)

\* order is the ranking the store uses for this query
search(e, query, top_k, plan, order) ==
    LET ld == ensure_model_loaded(e.model, plan.load)
        e1 == [e EXCEPT !.model = ld.model]
        query_embedding == Encode(query)
        n == NResults(top_k, e.doc_count)
        info == [query |-> query, top_k |-> top_k]
    IN  IF IndexIsEmpty(e)
            THEN Outcome(e, <<>>, FALSE, <<>>, 0, <<>>, "none", info)
        ELSE IF ld.raised
            THEN SearchFailed(e1, ld.attempts, 0, <<>>, "load", info)
        ELSE IF plan.encode
            THEN SearchFailed(e1, ld.attempts, 1, <<>>, "encode", info)
        ELSE IF plan.query \/ QueryThrows(e1.collection, n)
            THEN SearchFailed(e1, ld.attempts, 1, <<"query">>, "query", info)
        ELSE Outcome(e1,
                     FormatResults(QueryResult(e1.collection, query_embedding,
                                               n, order)),
                     FALSE, ld.attempts, 1, <<"query">>, "none", info)

\* failure plans of clear_index: the store call throws
ClearPlans == {p \in [delete : BOOLEAN, create : BOOLEAN] : p.delete => ~p.create}

\* a mutant of clear_index: a successful clear drops the model as well
clear_index_unloads(e, plan) ==
    LET info == [count_before |-> e.doc_count]
    IN
    IF plan.delete \/ ~e.collection.alive
        THEN Outcome(e, "None", FALSE, <<>>, 0, <<"delete_collection">>,
                     "delete_collection", info)
    ELSE IF plan.create
        THEN Outcome([e EXCEPT !.collection = DeletedCollection], "None",
                     FALSE, <<>>, 0,
                     <<"delete_collection", "create_collection">>,
                     "create_collection", info)
    ELSE Outcome([e EXCEPT !.collection = EmptyCollection,
                           !.indexed_docs = NoEntries,
                           !.doc_count = 0,
                           !.model = "None"],
                 "None", FALSE, <<>>, 0,
                 <<"delete_collection", "create_collection">>, "none", info)

\* delete_collection throws when the collection does not exist
clear_index(e, plan) ==
    LET info == [count_before |-> e.doc_count]
    IN
    IF plan.delete \/ ~e.collection.alive
        THEN Outcome(e, "None", FALSE, <<>>, 0, <<"delete_collection">>,
                     "delete_collection", info)
    ELSE IF plan.create
        THEN Outcome([e EXCEPT !.collection = DeletedCollection], "None",
                     FALSE, <<>>, 0,
                     <<"delete_collection", "create_collection">>,
                     "create_collection", info)
    ELSE Outcome([e EXCEPT !.collection = EmptyCollection,
                           !.indexed_docs = NoEntries,
                           !.doc_count = 0],
                 "None", FALSE, <<>>, 0,
                 <<"delete_collection", "create_collection">>, "none", info)

\* get_sentence_embedding_dimension() of the model
EmbeddingDimension == Len(Encode(<<>>))

\* a mutant of TotalDocuments: the tracked ids are counted
TotalDocumentsTracked(e) == Cardinality(DOMAIN e.indexed_docs)

\* get_stats, line 292: 'total_documents': self.doc_count
TotalDocuments(e) == e.doc_count

\* dimThrows: get_sentence_embedding_dimension throws
get_stats(e, dimThrows) ==
    Outcome(e,
            [total_documents |-> TotalDocuments(e),
             model_name |-> "all-MiniLM-L6-v2",
             indexed_files |-> DOMAIN e.indexed_docs,
             embedding_dimension |->
                IF e.model # "None"
                THEN (IF dimThrows THEN "Unknown (model not loaded)"
                      ELSE EmbeddingDimension)
                ELSE "Not loaded yet"],
            FALSE, <<>>, 0, <<>>,
            IF e.model # "None" /\ dimThrows THEN "dimension" ELSE "none",
            <<>>)

\* ------------------------------------------------------------ the processor
\* calls of the vision API counted per image content
MaxApiCalls == 2

\* images, told apart by their byte content
Images == {"img1", "img2"}

\* texts the vision API may return for an image
Descriptions == {"d1", "d2"}

FallbackDescription ==
    "Visual description unavailable (API key not configured or API error)"

\* md5 of the PNG bytes: a function of the content, injective here
image_hash(image) == <<"md5", image>>

NoCache == <<>>

\* ScreenshotProcessor.__init__: a client exists when an api key is given and
\* anthropic.Anthropic() does not throw
processor_init(api_key, clientThrows) ==
    [client |-> api_key /\ ~clientThrows, vision_cache |-> NoCache]

\* a mutant of CacheHit: the cache is never consulted
CacheHitNever(p, image, use_cache) == FALSE

\* a mutant of CacheHit: the cache is consulted whatever use_cache says
CacheHitAnyFlag(p, image, use_cache) ==
    image_hash(image) \in DOMAIN p.vision_cache

\* `use_cache and img_hash in self.vision_cache`
CacheHit(p, image, use_cache) ==
    use_cache /\ image_hash(image) \in DOMAIN p.vision_cache

\* a mutant of get_vision_description: the except branch caches the fallback
get_vision_description_caches_fallback(p, image, use_cache, api) ==
    IF ~p.client
        THEN [processor |-> p, ret |-> FallbackDescription, api_called |-> FALSE]
    ELSE IF CacheHit(p, image, use_cache)
        THEN [processor |-> p, ret |-> p.vision_cache[image_hash(image)],
              api_called |-> FALSE]
    ELSE [processor |-> IF use_cache
                           THEN [p EXCEPT !.vision_cache =
                                   Put(@, image_hash(image),
                                       IF api = "fail" THEN FallbackDescription
                                       ELSE api)]
                           ELSE p,
          ret |-> IF api = "fail" THEN FallbackDescription ELSE api,
          api_called |-> TRUE]

\* api: "fail" when client.messages.create throws, else the text it returns
get_vision_description(p, image, use_cache, api) ==
    IF ~p.client
        THEN [processor |-> p, ret |-> FallbackDescription, api_called |-> FALSE]
    ELSE IF CacheHit(p, image, use_cache)
        THEN [processor |-> p, ret |-> p.vision_cache[image_hash(image)],
              api_called |-> FALSE]
    ELSE IF api = "fail"
        THEN [processor |-> p, ret |-> FallbackDescription, api_called |-> TRUE]
    ELSE [processor |-> IF use_cache
                           THEN [p EXCEPT !.vision_cache =
                                            Put(@, image_hash(image), api)]
                           ELSE p,
          ret |-> api, api_called |-> TRUE]

\* ------------------------------------------------------------------ threads
\* Two threads call the methods of one engine without a lock.
Threads == {"t1", "t2"}

\* the methods that assign to the engine's fields or write to the store
Mutating == {"index_document", "index_batch", "clear_index"}

\* the documents and the list the threads index
ThreadDocs == {ProcessedDoc(PathA, <<"x">>, <<>>), ProcessedDoc(PathB, <<"x">>, <<>>)}

ThreadBatch == <<ProcessedDoc(PathA, <<"x">>, <<>>), ProcessedDoc(PathB, <<"x">>, <<>>)>>

\* a thread that is in no call.  docs, ids, embeddings, metadatas, texts,
\* count, query, top_k: the locals of the call; ret: the value the last call
\* returned; calls: the calls made so far; quiet: no mutating call of another
\* thread was in progress since the call began; began: the engine when a
\* quiet call began; raced: a mutating call of this thread was in progress
\* together with a mutating call of another thread
IdleThread ==
    [pc |-> "idle", op |-> "none", docs |-> <<>>, ids |-> <<>>,
     embeddings |-> <<>>, metadatas |-> <<>>, texts |-> <<>>, count |-> 0,
     query |-> <<>>, top_k |-> 0, ret |-> "None", calls |-> 0,
     quiet |-> FALSE,
     began |-> [model |-> "None", collection |-> EmptyCollection,
                indexed_docs |-> NoEntries, doc_count |-> 0],
     raced |-> FALSE]

NoThreads == [t \in Threads |-> IdleThread]

\* ------------------------------------------------------------------ actions
\* no processor call was made yet
NoVisionCalls ==
    [api_calls |-> [image \in Images |-> 0],
     api_failed |-> [image \in Images |-> 0],
     api_uncached |-> [image \in Images |-> 0],
     op |-> "__init__", image |-> "none", use_cache |-> FALSE,
     ret |-> "None", api_called |-> FALSE, api |-> "none"]

\* the state after SearchEngine.__init__ returned (lines 39-75)
NoCall ==
    [op |-> "__init__", ret |-> "None", raised |-> FALSE, loads |-> <<>>,
     encodes |-> 0, calls |-> <<>>, thrower |-> "none", info |-> <<>>,
     ghost |-> FALSE, after_failed_load |-> FALSE]

Init ==
    /\ model = "None"
    /\ collection = EmptyCollection
    /\ indexed_docs = NoEntries
    /\ doc_count = 0
    /\ last = NoCall
    /\ processor = processor_init(FALSE, FALSE)
    /\ vision_log = NoVisionCalls
    /\ threads = NoThreads

\* the call `op` ran to its end with outcome o; ghost is what the caller
\* knows about the call beyond its outcome; after_failed_load: a call before
\* it ended with all load strategies failing
Finish(op, o, ghost) ==
    /\ model' = o.engine.model
    /\ collection' = o.engine.collection
    /\ indexed_docs' = o.engine.indexed_docs
    /\ doc_count' = o.engine.doc_count
    /\ last' = [op |-> op, ret |-> o.ret, raised |-> o.raised,
                loads |-> o.loads, encodes |-> o.encodes, calls |-> o.calls,
                thrower |-> o.thrower, info |-> o.info, ghost |-> ghost,
                after_failed_load |->
                    last.after_failed_load \/ last.thrower = "load"]
    /\ UNCHANGED <<processor, vision_log, threads>>

\* a load strategy can throw only when a load is attempted
CanLoad(plan) == plan.load > 0 => model = "None"

\* the call before this one was index_document on the same path
Repeats(document) ==
    /\ last.op = "index_document"
    /\ last.info.path = document.path

\* for each path of the list, its first document that has text
FirstByPath(documents) ==
    LET valid == {i \in DOMAIN documents : HasText(documents[i])}
        first(path) == CHOOSE i \in valid :
                          /\ documents[i].path = path
                          /\ \A j \in valid : documents[j].path = path => i <= j
    IN [path \in {documents[i].path : i \in valid} |-> documents[first(path)]]

IndexDocument ==
    \E document \in Docs :
        \E plan \in IndexPlans :
            /\ CanLoad(plan)
            /\ Finish("index_document", index_document(Engine, document, plan),
                      Repeats(document))

IndexBatch ==
    \E documents \in Batches :
        \E plan \in BatchPlans :
            /\ CanLoad(plan)
            /\ plan.encode <= Len(documents)
            /\ Finish("index_batch", index_batch(Engine, documents, plan),
                      FirstByPath(documents))

Search ==
    \E query \in Queries, top_k \in TopKs :
        \E plan \in SearchPlans, order \in RankedOrders(collection, Encode(query)) :
            /\ CanLoad(plan)
            /\ Finish("search", search(Engine, query, top_k, plan, order), FALSE)

ClearIndex ==
    \E plan \in ClearPlans :
        \E o \in {clear_index(Engine, plan)} :
            Finish("clear_index", o, FALSE)

GetStats ==
    \E dimThrows \in BOOLEAN :
        \E o \in {get_stats(Engine, dimThrows)} :
            Finish("get_stats", o, FALSE)

Next ==
    \/ IndexDocument
    \/ IndexBatch
    \/ Search
    \/ ClearIndex
    \/ GetStats

Spec == Init /\ [][Next]_vars

\* ------------------------------------------------------------ construction
\* The three chromadb client constructions of __init__, in the order tried.
ClientStrategies == <<"EphemeralClient", "Client(Settings)", "Client()">>

\* failure plans of __init__: client = number of leading client constructions
\* that throw, collection = get_or_create_collection throws
CtorPlans ==
    {p \in [client : 0..Len(ClientStrategies), collection : BOOLEAN] :
        p.client = Len(ClientStrategies) => ~p.collection}

\* the fields of an engine that was not constructed (no object exists)
NoEngine ==
    [model |-> "None", collection |-> DeletedCollection,
     indexed_docs |-> NoEntries, doc_count |-> 0]

\* the engine __init__ leaves when it returns (lines 39-40, 68-75)
NewEngine ==
    [model |-> "None", collection |-> EmptyCollection,
     indexed_docs |-> NoEntries, doc_count |-> 0]

\* a mutant of construct: the last client failure is swallowed
construct_swallow(plan) ==
    LET tried == SubSeq(ClientStrategies, 1,
                        Min(plan.client + 1, Len(ClientStrategies)))
    IN  IF plan.client >= Len(ClientStrategies)
            THEN Outcome(NoEngine, "None", FALSE, <<>>, 0, tried, "client", <<>>)
        ELSE IF plan.collection
            THEN Outcome(NoEngine, NoReturn, TRUE, <<>>, 0,
                         Append(tried, "get_or_create_collection"),
                         "get_or_create_collection", <<>>)
        ELSE Outcome(NewEngine, "None", FALSE, <<>>, 0,
                     Append(tried, "get_or_create_collection"), "none", <<>>)

\* SearchEngine.__init__; calls: the client constructions tried, then the
\* collection call
construct(plan) ==
    LET tried == SubSeq(ClientStrategies, 1,
                        Min(plan.client + 1, Len(ClientStrategies)))
    IN  IF plan.client >= Len(ClientStrategies)
            THEN Outcome(NoEngine, NoReturn, TRUE, <<>>, 0, tried, "client", <<>>)
        ELSE IF plan.collection
            THEN Outcome(NoEngine, NoReturn, TRUE, <<>>, 0,
                         Append(tried, "get_or_create_collection"),
                         "get_or_create_collection", <<>>)
        ELSE Outcome(NewEngine, "None", FALSE, <<>>, 0,
                     Append(tried, "get_or_create_collection"), "none", <<>>)

\* before SearchEngine(...) is called
InitCtor ==
    /\ model = NoEngine.model
    /\ collection = NoEngine.collection
    /\ indexed_docs = NoEngine.indexed_docs
    /\ doc_count = NoEngine.doc_count
    /\ last = [NoCall EXCEPT !.op = "none"]
    /\ processor = processor_init(FALSE, FALSE)
    /\ vision_log = NoVisionCalls
    /\ threads = NoThreads

Construct ==
    /\ last.op = "none"
    /\ \E plan \in CtorPlans :
          \E o \in {construct(plan)} :
              Finish("__init__", o, FALSE)

\* an engine object exists: __init__ was called and returned
Constructed == last.op # "none" /\ ~(last.op = "__init__" /\ last.raised)

NextCtor ==
    \/ Construct
    \/ Constructed /\ IndexDocument
    \/ Constructed /\ IndexBatch
    \/ Constructed /\ Search
    \/ Constructed /\ ClearIndex
    \/ Constructed /\ GetStats

\* the engine from the call of its constructor on
SpecCtor == InitCtor /\ [][NextCtor]_vars

\* ------------------------------------------------- the processor's calls
\* a processor constructed with or without an api key, and an engine nobody calls
InitProc ==
    /\ model = "None"
    /\ collection = EmptyCollection
    /\ indexed_docs = NoEntries
    /\ doc_count = 0
    /\ last = NoCall
    /\ \E api_key \in BOOLEAN, clientThrows \in BOOLEAN :
          processor = processor_init(api_key, clientThrows)
    /\ vision_log = NoVisionCalls
    /\ threads = NoThreads

Bump(counts, image, by) == [counts EXCEPT ![image] = @ + (IF by THEN 1 ELSE 0)]

\* the call returned r; api is what the vision API answered if it was called
FinishVision(image, use_cache, api, r) ==
    /\ processor' = r.processor
    /\ vision_log' =
          [api_calls |-> Bump(vision_log.api_calls, image, r.api_called),
           api_failed |-> Bump(vision_log.api_failed, image,
                               r.api_called /\ api = "fail"),
           api_uncached |-> Bump(vision_log.api_uncached, image,
                                 r.api_called /\ api # "fail" /\ ~use_cache),
           op |-> "get_vision_description", image |-> image,
           use_cache |-> use_cache, ret |-> r.ret,
           api_called |-> r.api_called,
           api |-> IF r.api_called THEN api ELSE "none"]
    /\ UNCHANGED <<model, collection, indexed_docs, doc_count, last, threads>>

\* the API answers only when it is called, and at most MaxApiCalls times
\* per image
CanCallApi(image, use_cache, api) ==
    IF processor.client /\ ~CacheHit(processor, image, use_cache)
    THEN vision_log.api_calls[image] < MaxApiCalls
    ELSE api = "fail"

GetVisionDescription ==
    \E image \in Images, use_cache \in BOOLEAN :
        \E api \in Descriptions \cup {"fail"} :
            /\ CanCallApi(image, use_cache, api)
            /\ FinishVision(image, use_cache, api,
                            get_vision_description(processor, image, use_cache, api))

NextProc == GetVisionDescription

SpecProc == InitProc /\ [][NextProc]_vars

\* ------------------------------------------------------ the threads' steps
\* A step is one access to a field of the engine or one store call, with the
\* local computation that precedes it.  The model and the store do not fail
\* here, except where the state of the collection makes the store throw.

\* thread t is inside a call
Busy(t) == threads[t].pc # "idle"

\* a thread other than t is inside a mutating call
OthersMutating(t) ==
    \E u \in Threads \ {t} : Busy(u) /\ threads[u].op \in Mutating

\* thread t enters the method op at position pc with the locals of `locals`
Begin(t, op, pc, locals) ==
    /\ ~Busy(t)
    /\ threads[t].calls < MaxCalls
    /\ threads' =
          [u \in Threads |->
              IF u = t
              THEN [locals EXCEPT
                      !.pc = pc, !.op = op,
                      !.calls = threads[t].calls + 1,
                      !.quiet = op \notin Mutating /\ ~OthersMutating(t),
                      !.began = IF op \notin Mutating /\ ~OthersMutating(t)
                                THEN Engine ELSE IdleThread.began,
                      !.raced = threads[t].raced
                                  \/ (op \in Mutating /\ OthersMutating(t))]
              ELSE IF op \in Mutating
              THEN [threads[u] EXCEPT
                      !.quiet = FALSE,
                      !.began = IdleThread.began,
                      !.raced = @ \/ (Busy(u) /\ threads[u].op \in Mutating)]
              ELSE threads[u]]

\* thread t moves on to position pc with its locals changed to `locals`
Goto(t, pc, locals) ==
    threads' = [threads EXCEPT ![t] = [locals EXCEPT !.pc = pc]]

\* the call of thread t returns ret
Return(t, ret) ==
    threads' =
        [threads EXCEPT ![t] =
            [IdleThread EXCEPT
                !.op = threads[t].op, !.ret = ret,
                !.query = threads[t].query, !.top_k = threads[t].top_k,
                !.calls = threads[t].calls, !.quiet = threads[t].quiet,
                !.began = threads[t].began, !.raced = threads[t].raced]]

\* the variables no thread step changes
ThreadFrame == UNCHANGED <<last, processor, vision_log>>

\* index_document, lines 119-123: the text check and the id are local; the
\* threads index documents with text
CallIndexDocument ==
    \E t \in Threads : \E document \in ThreadDocs :
        /\ HasText(document)
        /\ Begin(t, "index_document", "check",
                 [IdleThread EXCEPT !.docs = <<document>>])
        /\ UNCHANGED <<model, collection, indexed_docs, doc_count>>
        /\ ThreadFrame

\* index_document, lines 126-127: `if doc_id in self.indexed_docs`
CheckIndexed ==
    \E t \in Threads :
        /\ threads[t].pc = "check"
        /\ IF AlreadyIndexed(generate_doc_id(threads[t].docs[1].path),
                             indexed_docs)
           THEN Return(t, TRUE)
           ELSE Goto(t, "ensure", threads[t])
        /\ UNCHANGED <<model, collection, indexed_docs, doc_count>>
        /\ ThreadFrame

\* _ensure_model_loaded called at lines 130, 182 and 245; the construction
\* and the assignment to self.model are one step: when two threads both find
\* self.model None, both construct and both assign an equal model
EnsureModel ==
    \E t \in Threads :
        /\ threads[t].pc = "ensure"
        /\ model' = ensure_model_loaded(model, 0).model
        /\ Goto(t, CASE threads[t].op = "index_document" -> "add"
                     [] threads[t].op = "index_batch" -> "loop"
                     [] OTHER -> "query",
                threads[t])
        /\ UNCHANGED <<collection, indexed_docs, doc_count>>
        /\ ThreadFrame

\* index_document, lines 133-151 and the except branch 159-161:
\* encode, the metadata, collection.add
AddOne ==
    \E t \in Threads :
        LET document == threads[t].docs[1]
            doc_id == generate_doc_id(document.path)
        IN  /\ threads[t].pc = "add"
            /\ IF AddThrows(collection, <<doc_id>>)
               THEN /\ Return(t, FALSE)
                    /\ UNCHANGED collection
               ELSE /\ collection' =
                          AddEntries(collection, <<doc_id>>,
                                     <<Encode(document.combined_text)>>,
                                     <<Metadata(document)>>,
                                     <<document.combined_text>>)
                    /\ Goto(t, "track", [threads[t] EXCEPT !.ids = <<doc_id>>])
            /\ UNCHANGED <<model, indexed_docs, doc_count>>
            /\ ThreadFrame

\* index_document, line 154: self.indexed_docs[doc_id] = document
Track ==
    \E t \in Threads :
        /\ threads[t].pc = "track"
        /\ indexed_docs' = Put(indexed_docs, threads[t].ids[1], threads[t].docs[1])
        /\ Goto(t, "count_read", threads[t])
        /\ UNCHANGED <<model, collection, doc_count>>
        /\ ThreadFrame

\* lines 155 and 221, `self.doc_count += n`: the read of self.doc_count
CountRead ==
    \E t \in Threads :
        /\ threads[t].pc = "count_read"
        /\ Goto(t, "count_write", [threads[t] EXCEPT !.count = doc_count])
        /\ UNCHANGED <<model, collection, indexed_docs, doc_count>>
        /\ ThreadFrame

\* lines 155 and 221, `self.doc_count += n`: the write of the sum, and the
\* return of lines 157 and 226
CountWrite ==
    \E t \in Threads :
        /\ threads[t].pc = "count_write"
        /\ doc_count' = threads[t].count + Len(threads[t].ids)
        /\ Return(t, IF threads[t].op = "index_document" THEN TRUE
                     ELSE Len(threads[t].ids))
        /\ UNCHANGED <<model, collection, indexed_docs>>
        /\ ThreadFrame

\* index_batch, lines 176-179: the filter is local; the threads index lists
\* that hold a document with text
CallIndexBatch ==
    \E t \in Threads : \E documents \in {ThreadBatch} :
        /\ ~NothingToIndex(SelectSeq(documents, HasText))
        /\ Begin(t, "index_batch", "ensure",
                 [IdleThread EXCEPT !.docs = SelectSeq(documents, HasText)])
        /\ UNCHANGED <<model, collection, indexed_docs, doc_count>>
        /\ ThreadFrame

\* where the loop of index_batch goes on with `docs` left and `ids`
\* collected: the next pass, the add of line 215, or the return of line 226
\* when the loop ended with ids empty (line 213)
AfterPass(docs, ids) ==
    IF docs # <<>> THEN "loop" ELSE IF ids # <<>> THEN "add_batch" ELSE "return"

\* index_batch, lines 190-195: `if doc_id in self.indexed_docs: continue`
LoopCheck ==
    \E t \in Threads :
        LET cur == threads[t]
            rest == [cur EXCEPT !.docs = Tail(@)]
        IN  /\ cur.pc = "loop"
            /\ IF ~AlreadyIndexed(generate_doc_id(Head(cur.docs).path),
                                  indexed_docs)
               THEN Goto(t, "loop_track", cur)
               ELSE IF AfterPass(rest.docs, rest.ids) = "return"
               THEN Return(t, 0)
               ELSE Goto(t, AfterPass(rest.docs, rest.ids), rest)
            /\ UNCHANGED <<model, collection, indexed_docs, doc_count>>
            /\ ThreadFrame

\* index_batch, lines 196-210: the appends, encode, and
\* self.indexed_docs[doc_id] = doc
LoopTrack ==
    \E t \in Threads :
        LET cur == threads[t]
            doc == Head(cur.docs)
            doc_id == generate_doc_id(doc.path)
            rest == [cur EXCEPT
                        !.docs = Tail(@),
                        !.ids = Append(@, doc_id),
                        !.embeddings = Append(@, Encode(doc.combined_text)),
                        !.texts = Append(@, doc.combined_text),
                        !.metadatas = Append(@, Metadata(doc))]
        IN  /\ cur.pc = "loop_track"
            /\ indexed_docs' = Put(indexed_docs, doc_id, doc)
            /\ Goto(t, AfterPass(rest.docs, rest.ids), rest)
            /\ UNCHANGED <<model, collection, doc_count>>
            /\ ThreadFrame

\* index_batch, lines 213-220 and the except branch 222-224
AddBatch ==
    \E t \in Threads :
        LET cur == threads[t]
        IN  /\ cur.pc = "add_batch"
            /\ IF AddThrows(collection, cur.ids)
               THEN /\ Return(t, 0)
                    /\ UNCHANGED collection
               ELSE /\ collection' =
                          AddEntries(collection, cur.ids, cur.embeddings,
                                     cur.metadatas, cur.texts)
                    /\ Goto(t, "count_read", cur)
            /\ UNCHANGED <<model, indexed_docs, doc_count>>
            /\ ThreadFrame

CallClearIndex ==
    \E t \in Threads :
        /\ Begin(t, "clear_index", "delete", IdleThread)
        /\ UNCHANGED <<model, collection, indexed_docs, doc_count>>
        /\ ThreadFrame

\* clear_index, line 274: delete_collection throws when the collection does
\* not exist; the except branch (281-282) ends the call
DeleteCollection ==
    \E t \in Threads :
        /\ threads[t].pc = "delete"
        /\ IF ~collection.alive
           THEN /\ Return(t, "None")
                /\ UNCHANGED collection
           ELSE /\ collection' = DeletedCollection
                /\ Goto(t, "create", threads[t])
        /\ UNCHANGED <<model, indexed_docs, doc_count>>
        /\ ThreadFrame

\* clear_index, lines 275-278: create_collection and the assignment to
\* self.collection; create_collection throws when the collection exists
CreateCollection ==
    \E t \in Threads :
        /\ threads[t].pc = "create"
        /\ IF collection.alive
           THEN /\ Return(t, "None")
                /\ UNCHANGED collection
           ELSE /\ collection' = EmptyCollection
                /\ Goto(t, "reset_indexed", threads[t])
        /\ UNCHANGED <<model, indexed_docs, doc_count>>
        /\ ThreadFrame

\* clear_index, line 279: self.indexed_docs = {}
ResetIndexed ==
    \E t \in Threads :
        /\ threads[t].pc = "reset_indexed"
        /\ indexed_docs' = NoEntries
        /\ Goto(t, "reset_count", threads[t])
        /\ UNCHANGED <<model, collection, doc_count>>
        /\ ThreadFrame

\* a mutant of ResetCount: the count is not reset
ResetCountKept ==
    \E t \in Threads :
        /\ threads[t].pc = "reset_count"
        /\ Return(t, "None")
        /\ UNCHANGED <<model, collection, indexed_docs, doc_count>>
        /\ ThreadFrame

\* clear_index, line 280: self.doc_count = 0
ResetCount ==
    \E t \in Threads :
        /\ threads[t].pc = "reset_count"
        /\ doc_count' = 0
        /\ Return(t, "None")
        /\ UNCHANGED <<model, collection, indexed_docs>>
        /\ ThreadFrame

CallSearch ==
    \E t \in Threads : \E query \in Queries :
        /\ Begin(t, "search", "empty_check",
                 [IdleThread EXCEPT !.query = query, !.top_k = MaxTopK])
        /\ UNCHANGED <<model, collection, indexed_docs, doc_count>>
        /\ ThreadFrame

\* search, lines 241-242: `if self.doc_count == 0: return []`
EmptyCheck ==
    \E t \in Threads :
        /\ threads[t].pc = "empty_check"
        /\ IF IndexIsEmpty(Engine)
           THEN Return(t, <<>>)
           ELSE Goto(t, "ensure", threads[t])
        /\ UNCHANGED <<model, collection, indexed_docs, doc_count>>
        /\ ThreadFrame

\* search, lines 248-264 and the except branch 266-268: encode, the second
\* read of self.doc_count, collection.query and the formatting
Query ==
    \E t \in Threads :
        LET cur == threads[t]
            n == NResults(cur.top_k, doc_count)
        IN  /\ cur.pc = "query"
            /\ IF QueryThrows(collection, n)
               THEN Return(t, <<>>)
               ELSE \E order \in RankedOrders(collection, Encode(cur.query)) :
                       Return(t, FormatResults(
                                    QueryResult(collection, Encode(cur.query),
                                                n, order)))
            /\ UNCHANGED <<model, collection, indexed_docs, doc_count>>
            /\ ThreadFrame

CallGetStats ==
    \E t \in Threads :
        /\ Begin(t, "get_stats", "stats", IdleThread)
        /\ UNCHANGED <<model, collection, indexed_docs, doc_count>>
        /\ ThreadFrame

\* get_stats, lines 291-295: the reads of self.doc_count and of the keys of
\* self.indexed_docs
StatsRead ==
    \E t \in Threads :
        /\ threads[t].pc = "stats"
        /\ Goto(t, "dimension",
                [threads[t] EXCEPT !.ret = get_stats(Engine, FALSE).ret])
        /\ UNCHANGED <<model, collection, indexed_docs, doc_count>>
        /\ ThreadFrame

\* get_stats, lines 298-306: the read of self.model
StatsDimension ==
    \E t \in Threads :
        /\ threads[t].pc = "dimension"
        /\ Return(t, [threads[t].ret EXCEPT
                        !.embedding_dimension =
                            get_stats(Engine, FALSE).ret.embedding_dimension])
        /\ UNCHANGED <<model, collection, indexed_docs, doc_count>>
        /\ ThreadFrame

NextThreads ==
    \/ CallIndexDocument
    \/ CheckIndexed
    \/ EnsureModel
    \/ AddOne
    \/ Track
    \/ CountRead
    \/ CountWrite
    \/ CallIndexBatch
    \/ LoopCheck
    \/ LoopTrack
    \/ AddBatch
    \/ CallClearIndex
    \/ DeleteCollection
    \/ CreateCollection
    \/ ResetIndexed
    \/ ResetCount
    \/ CallSearch
    \/ EmptyCheck
    \/ Query
    \/ CallGetStats
    \/ StatsRead
    \/ StatsDimension

\* two threads calling the methods of one engine, their steps interleaved
SpecThreads == Init /\ [][NextThreads]_vars

\* ----------------------------------------------------------- long documents
\* Documents whose texts reach and pass the preview length.

\* a text of n characters: "x" repeated, with "y" as its last character
LongText(n) == [i \in 1..n |-> IF i = n THEN "y" ELSE "x"]

\* for a.png a screenshot with OCR text one character longer than a preview
\* and no description; for b.png a screenshot with a short OCR text and a
\* description as long as a preview, and one with no OCR text and a
\* description one character longer than a preview
LongDocs ==
    {ProcessedDoc(PathA, LongText(PreviewLen + 1), <<>>),
     ProcessedDoc(PathB, <<"x">>, LongText(PreviewLen)),
     ProcessedDoc(PathB, <<>>, LongText(PreviewLen + 1))}

LongBatches == UNION {[1..n -> LongDocs] : n \in 0..MaxBatch}

IndexLongDocument ==
    \E document \in LongDocs :
        \E plan \in IndexPlans :
            /\ CanLoad(plan)
            /\ Finish("index_document", index_document(Engine, document, plan),
                      Repeats(document))

IndexLongBatch ==
    \E documents \in LongBatches :
        \E plan \in BatchPlans :
            /\ CanLoad(plan)
            /\ plan.encode <= Len(documents)
            /\ Finish("index_batch", index_batch(Engine, documents, plan),
                      FirstByPath(documents))

NextLong ==
    \/ IndexLongDocument
    \/ IndexLongBatch
    \/ ClearIndex

\* the engine indexing long documents
SpecLong == Init /\ [][NextLong]_vars

\* ------------------------------------------------------------------- claims

\* doc_count, indexed_docs and the store contents are left as they were
IndexUnchanged == UNCHANGED <<doc_count, indexed_docs, collection>>

\* C1: a document with text whose index_document call found no collaborator
\* throwing gets the return value true; and when index_document is called on
\* the path that the call just before it indexed with the return value true,
\* the second call returns true as well, calls no collaborator, and leaves
\* doc_count, indexed_docs and the store contents as the first call left them.
C1_IdempotentReindex ==
    [][last'.op = "index_document" /\ HasText(last'.info) =>
        /\ last'.thrower = "none" => last'.ret = TRUE
        /\ ( /\ last.op = "index_document"
             /\ HasText(last.info)
             /\ last.ret = TRUE
             /\ last'.info.path = last.info.path )
           => /\ last'.ret = TRUE
              /\ last'.encodes = 0 /\ last'.calls = <<>> /\ last'.loads = <<>>
              /\ IndexUnchanged]_vars

\* a second index_document in a row on an indexed path has returned true
C1_Witness ==
    /\ last.op = "index_document"
    /\ last.ghost
    /\ HasText(last.info)
    /\ last.ret = TRUE
    /\ last.encodes = 0
    /\ generate_doc_id(last.info.path) \in DOMAIN collection.entries
    /\ doc_count = 1

\* the store and indexed_docs agree on every stored entry, one entry per path
StoreMatchesIndexed ==
    \A id \in DOMAIN collection.entries :
        /\ id \in DOMAIN indexed_docs
        /\ collection.entries[id].document = indexed_docs[id].combined_text
        /\ collection.entries[id].metadata.path = indexed_docs[id].path
        /\ \A other \in DOMAIN collection.entries :
              collection.entries[other].metadata.path
                  = collection.entries[id].metadata.path => other = id

\* C2: the store holds at most one entry per path and its text is that of the
\* document recorded in indexed_docs; an index_document or index_batch call
\* changes neither the recorded document nor the stored entry of a path that
\* is already indexed, and a path that index_batch newly records gets the
\* first document of the list that has that path and has text.
C2_FirstWriteWins ==
    [][ /\ StoreMatchesIndexed'
        /\ last'.op \in {"index_document", "index_batch"} =>
            /\ \A id \in DOMAIN indexed_docs :
                  id \in DOMAIN indexed_docs' /\ indexed_docs'[id] = indexed_docs[id]
            /\ \A id \in DOMAIN collection.entries :
                  /\ id \in DOMAIN collection'.entries
                  /\ collection'.entries[id] = collection.entries[id]
        /\ last'.op = "index_batch" =>
            \A id \in DOMAIN indexed_docs' \ DOMAIN indexed_docs :
                \E path \in DOMAIN last'.ghost :
                    /\ id = generate_doc_id(path)
                    /\ indexed_docs'[id] = last'.ghost[path] ]_vars

\* a.png is stored with its OCR-only document, and the last call offered the
\* description-only document of a.png
C2_Witness ==
    /\ generate_doc_id(PathA) \in DOMAIN collection.entries
    /\ indexed_docs[generate_doc_id(PathA)] = ProcessedDoc(PathA, <<"x">>, <<>>)
    /\ \/ /\ last.op = "index_document"
          /\ last.info = ProcessedDoc(PathA, <<>>, <<"y">>)
          /\ last.ret = TRUE
       \/ /\ last.op = "index_batch"
          /\ PathA \in DOMAIN last.ghost
          /\ last.ghost[PathA] = ProcessedDoc(PathA, <<>>, <<"y">>)
          /\ ~last.raised

\* C3: no step lowers doc_count except a clear_index step, which leaves it at
\* exactly 0, and doc_count is never negative.
C3_MonotonicCount ==
    [][ /\ doc_count' >= 0
        /\ doc_count' < doc_count =>
              last'.op = "clear_index" /\ doc_count' = 0 ]_vars

\* clear_index has reset a positive count
C3_Witness ==
    /\ last.op = "clear_index"
    /\ last.info.count_before > 0
    /\ doc_count = 0

\* C4 as stated: the list search returns is no longer than
\* min(top_k, doc_count), for every top_k.
C4_TopKBoundAsStated ==
    last.op = "search" => Len(last.ret) <= Min(last.info.top_k, doc_count)

\* C4, amended: the list search returns is no longer than
\* max(0, min(top_k, doc_count)): at most min(top_k, doc_count) entries for
\* top_k >= 0 and the empty list for a negative top_k.
C4_TopKBound ==
    last.op = "search" =>
        /\ Len(last.ret) <= Max(0, Min(last.info.top_k, doc_count))
        /\ last.info.top_k < 0 => last.ret = <<>>

\* search cut the result to a top_k below doc_count
C4_Witness ==
    /\ last.op = "search"
    /\ last.info.top_k = 1
    /\ doc_count = 2
    /\ Len(last.ret) = 1

\* the stored entry a returned metadata belongs to
EntryOf(metadata) == collection.entries[generate_doc_id(metadata.path)]

\* C5: the list search returns is, for one ranking of the store by increasing
\* cosine distance to the query, the first min(top_k, doc_count) stored entries
\* in that order, each as (metadata, 1 - distance); so its confidences do not
\* increase from first to last.
C5_RankingOrder ==
    (last.op = "search" /\ last.thrower = "none" /\ doc_count > 0) =>
        /\ \E order \in RankedOrders(collection, Encode(last.info.query)) :
              /\ Len(last.ret) = Min(Min(last.info.top_k, doc_count), Len(order))
              /\ \A i \in DOMAIN last.ret :
                    /\ last.ret[i][1] = collection.entries[order[i]].metadata
                    /\ last.ret[i][2] = DistScale -
                          CosineDistance(Encode(last.info.query),
                                         collection.entries[order[i]].embedding)
        /\ \A i, j \in DOMAIN last.ret :
              i < j => last.ret[i][2] >= last.ret[j][2]

\* search returned two results of different confidence
C5_Witness ==
    /\ last.op = "search"
    /\ Len(last.ret) = 2
    /\ last.ret[1][2] > last.ret[2][2]

\* C6: a search on an engine whose doc_count is 0 returns the empty list, tries
\* no load strategy, calls neither encode nor the store, and leaves the model
\* as it was.
C6_EmptyIndexQuery ==
    [][(last'.op = "search" /\ doc_count = 0) =>
        /\ last'.ret = <<>>
        /\ ~last'.raised
        /\ last'.loads = <<>>
        /\ last'.encodes = 0
        /\ last'.calls = <<>>
        /\ model' = model
        /\ IndexUnchanged]_vars

\* a search ran on an empty index whose model was never loaded
C6_Witness ==
    /\ last.op = "search"
    /\ doc_count = 0
    /\ model = "None"
    /\ last.ret = <<>>

\* a plan in which no collaborator call throws
NoFailure == [load |-> 0, encode |-> FALSE, add |-> FALSE]

\* C7: when encode or the store add throws during index_document, the call
\* returns false, no exception reaches the caller, doc_count, indexed_docs and
\* the store contents are what they were before the call, the document is not
\* recorded as indexed, and on a live collection a later index_document of the
\* same document in which nothing throws returns true and stores it.
C7_AtomicSingleFailure ==
    [][(last'.op = "index_document" /\ last'.thrower \in {"encode", "add"}) =>
        /\ last'.ret = FALSE
        /\ ~last'.raised
        /\ IndexUnchanged
        /\ generate_doc_id(last'.info.path) \notin DOMAIN indexed_docs'
        /\ collection'.alive =>
            LET retry == index_document(Engine', last'.info, NoFailure)
            IN  /\ retry.ret = TRUE
                /\ retry.engine.doc_count = doc_count + 1
                /\ generate_doc_id(last'.info.path)
                      \in DOMAIN retry.engine.collection.entries]_vars

\* the store add of an index_document call threw on a live collection
C7_Witness ==
    /\ last.op = "index_document"
    /\ last.thrower = "add"
    /\ collection.alive
    /\ last.ret = FALSE

\* C8: when the bulk store add of index_batch throws, the call changes neither
\* indexed_docs nor doc_count.
C8_TransactionalBatch ==
    [][(last'.op = "index_batch" /\ last'.thrower = "add") =>
        UNCHANGED <<indexed_docs, doc_count>>]_vars

\* the ids index_batch collected are recorded in indexed_docs
BatchIdsIndexed(l, docs) == \A i \in DOMAIN l.info.ids : l.info.ids[i] \in DOMAIN docs

\* C9 as stated: when the bulk store add of index_batch throws, the call
\* returns 0, indexed_docs holds the ids of the batch and doc_count has grown
\* by the number of those ids.
C9_BatchFailureAsStated ==
    [][(last'.op = "index_batch" /\ last'.thrower = "add") =>
        /\ last'.ret = 0
        /\ BatchIdsIndexed(last', indexed_docs')
        /\ doc_count' = doc_count + Len(last'.info.ids)]_vars

\* C9, amended: when the bulk store add of index_batch throws, the call
\* returns 0 and indexed_docs already holds the id of every new document of
\* the batch, none of which it held before, while doc_count and the store
\* contents are unchanged.
C9_BatchFailure ==
    [][(last'.op = "index_batch" /\ last'.thrower = "add") =>
        /\ last'.ret = 0
        /\ ~last'.raised
        /\ last'.info.ids # <<>>
        /\ BatchIdsIndexed(last', indexed_docs')
        /\ \A i \in DOMAIN last'.info.ids :
              last'.info.ids[i] \notin DOMAIN indexed_docs
        /\ DOMAIN indexed_docs' =
              DOMAIN indexed_docs \cup {last'.info.ids[i] : i \in DOMAIN last'.info.ids}
        /\ doc_count' = doc_count
        /\ collection' = collection]_vars

\* the bulk add of a batch of two new documents threw
C9_Witness ==
    /\ last.op = "index_batch"
    /\ last.thrower = "add"
    /\ Len(last.info.ids) = 2
    /\ last.ret = 0

\* C10: search never raises; when a load strategy chain, encode or the store
\* query throws, it returns the empty list.
C10_SearchNeverRaises ==
    last.op = "search" =>
        /\ ~last.raised
        /\ last.thrower \in {"load", "encode", "query"} => last.ret = <<>>

\* the store query of a search threw on a live collection holding documents
C10_Witness ==
    /\ last.op = "search"
    /\ last.thrower = "query"
    /\ last.info.top_k > 0
    /\ collection.alive
    /\ doc_count > 0
    /\ last.ret = <<>>

\* every load strategy was tried in the call and threw
AllLoadsFailed(l) ==
    /\ Len(l.loads) = Len(Strategies)
    /\ \A i \in DOMAIN l.loads : ~l.loads[i].ok

\* C11 as stated: when all three load attempts fail, the index_document,
\* index_batch or search call that triggered the load raises to its caller,
\* and __init__ raises when all three client constructions fail.
C11_InitFailurePropagatedAsStated ==
    /\ (last.op \in {"index_document", "index_batch", "search"}
            /\ AllLoadsFailed(last)) => last.raised
    /\ (last.op = "__init__" /\ last.thrower = "client") => last.raised

\* C11, amended: when all three load attempts fail the model stays unloaded;
\* index_batch raises that failure to its caller, index_document catches it
\* and returns false, search catches it and returns the empty list; __init__
\* raises when all three client constructions fail.
C11_InitFailurePropagated ==
    /\ (last.op \in {"index_document", "index_batch", "search"}
            /\ AllLoadsFailed(last)) =>
        /\ last.thrower = "load"
        /\ model = "None"
        /\ last.op = "index_batch" => last.raised
        /\ last.op = "index_document" => ~last.raised /\ last.ret = FALSE
        /\ last.op = "search" => ~last.raised /\ last.ret = <<>>
    /\ (last.op = "__init__" /\ last.thrower = "client") =>
        /\ last.raised
        /\ last.calls = ClientStrategies
    /\ last.raised =>
        \/ last.op = "__init__"
        \/ last.op = "index_batch" /\ last.thrower \in {"load", "encode"}

\* index_batch raised the failure of the third load strategy to its caller
C11_Witness ==
    /\ last.op = "index_batch"
    /\ AllLoadsFailed(last)
    /\ last.raised

\* C12: clear_index is all-or-nothing: after it returns, either the
\* collection exists and is empty, indexed_docs is empty and doc_count is 0,
\* or the store contents, indexed_docs and doc_count are exactly as before
\* the call; entries never vanish from the store while indexed_docs and
\* doc_count still report them.
C12_ClearAllOrNothing ==
    [][last'.op = "clear_index" =>
          \/ /\ collection' = EmptyCollection
             /\ indexed_docs' = NoEntries
             /\ doc_count' = 0
          \/ /\ collection'.entries = collection.entries
             /\ UNCHANGED <<indexed_docs, doc_count>>]_vars

\* the number of vision API calls the cache explains for an image: one
\* once its hash is cached, plus one per failed call, plus one per successful
\* call made with use_cache off
ExplainedApiCalls(image) ==
    (IF image_hash(image) \in DOMAIN processor.vision_cache THEN 1 ELSE 0)
        + vision_log.api_failed[image] + vision_log.api_uncached[image]

\* C13 as stated: for a processor with a vision client, after any sequence of
\* get_vision_description calls on images of one content the vision API was
\* invoked exactly once for that content.
C13_ExactlyOnceAsStated ==
    (processor.client /\ vision_log.op = "get_vision_description") =>
        vision_log.api_calls[vision_log.image] = 1

\* C13: for a processor with a vision client, a get_vision_description call
\* invokes the vision API unless use_cache is on and the content hash is
\* cached; so the API is invoked, per content, once for the call that cached
\* it, once per failed call and once per successful call with use_cache off.
C13_CacheReuse ==
    /\ [](processor.client =>
            \A image \in Images :
                vision_log.api_calls[image] = ExplainedApiCalls(image))
    /\ [][(processor.client /\ vision_log'.op = "get_vision_description") =>
            /\ vision_log'.api_called =
                  ~(vision_log'.use_cache
                      /\ image_hash(vision_log'.image)
                            \in DOMAIN processor.vision_cache)
            /\ vision_log'.api_calls[vision_log'.image] =
                  vision_log.api_calls[vision_log'.image]
                      + (IF vision_log'.api_called THEN 1 ELSE 0)]_vars

C13_Witness ==
    /\ processor.client
    /\ vision_log.op = "get_vision_description"
    /\ ~vision_log.use_cache
    /\ image_hash(vision_log.image) \in DOMAIN processor.vision_cache
    /\ vision_log.api_called
    /\ vision_log.api_calls[vision_log.image] = 2

\* a text that is empty or only whitespace
Blank(text) == \A i \in DOMAIN text : text[i] \in Whitespace

\* C14: index_document on a document whose combined_text is empty or only
\* whitespace returns false and leaves doc_count, indexed_docs, the store and
\* the model unchanged (no load, no encode, no store call), whether or not
\* its path is already indexed.
C14_EmptyDocumentSkipped ==
    [][(last'.op = "index_document" /\ Blank(last'.info.combined_text)) =>
          /\ ~last'.raised
          /\ last'.ret = FALSE
          /\ UNCHANGED <<model, collection, indexed_docs, doc_count>>
          /\ last'.loads = <<>>
          /\ last'.encodes = 0
          /\ last'.calls = <<>>]_vars

C14_Witness ==
    /\ last.op = "index_document"
    /\ last.info.combined_text # <<>>
    /\ Blank(last.info.combined_text)
    /\ generate_doc_id(last.info.path) \in DOMAIN indexed_docs
    /\ last.ret = FALSE

\* C15: index_batch on the empty list, or on a list in which every document
\* has empty or whitespace-only combined_text, returns 0 and leaves
\* doc_count, indexed_docs, the store and the model unchanged (no load, no
\* encode, no store call).
C15_EmptyBatch ==
    [][(last'.op = "index_batch" /\ last'.info.valid = 0) =>
          /\ ~last'.raised
          /\ last'.ret = 0
          /\ UNCHANGED <<model, collection, indexed_docs, doc_count>>
          /\ last'.loads = <<>>
          /\ last'.encodes = 0
          /\ last'.calls = <<>>]_vars

C15_Witness ==
    /\ last.op = "index_batch"
    /\ last.info.size = MaxBatch
    /\ last.info.valid = 0
    /\ ~last.raised
    /\ last.ret = 0
    /\ model = "None"

\* C16: get_stats changes none of doc_count, indexed_docs, the store and the
\* model, never starts the load chain, reports "Not loaded yet" as
\* embedding_dimension exactly when the model is not loaded, and reports
\* total_documents equal to doc_count.
C16_StatsReadOnly ==
    /\ [][last'.op = "get_stats" =>
              UNCHANGED <<model, collection, indexed_docs, doc_count>>]_vars
    /\ [](last.op = "get_stats" =>
            /\ ~last.raised
            /\ last.loads = <<>>
            /\ last.ret.total_documents = doc_count
            /\ last.ret.indexed_files = DOMAIN indexed_docs
            /\ model = "None" =>
                  last.ret.embedding_dimension = "Not loaded yet"
            /\ (model # "None" /\ last.thrower = "dimension") =>
                  last.ret.embedding_dimension = "Unknown (model not loaded)"
            /\ (model # "None" /\ last.thrower # "dimension") =>
                  last.ret.embedding_dimension = EmbeddingDimension)

C16_Witness ==
    /\ last.op = "get_stats"
    /\ model = "None"
    /\ indexed_docs = NoEntries
    /\ last.ret.total_documents = 0
    /\ last.ret.embedding_dimension = "Not loaded yet"

\* C17: when encode throws for one document, index_document returns false
\* and index_batch does not raise to the caller, and no document is left
\* marked in indexed_docs by the call without a store entry.
C17_EncodeFailureRecovered ==
    [][(last'.op \in {"index_document", "index_batch"}
            /\ last'.thrower = "encode") =>
          /\ ~last'.raised
          /\ last'.op = "index_document" => last'.ret = FALSE
          /\ \A id \in DOMAIN indexed_docs' \ DOMAIN indexed_docs :
                id \in DOMAIN collection'.entries]_vars

\* the paths tracked in indexed_docs
IndexedPaths == {indexed_docs[id].path : id \in DOMAIN indexed_docs}

\* C18: the document id depends on the path only: a batch of N documents
\* with text and pairwise distinct paths, indexed without failure on an
\* empty index, yields doc_count = N and N store entries, whatever their
\* content; a document whose path is not indexed yet always adds one entry.
C18_PathBasedIdentity ==
    /\ [][(/\ last'.op = "index_batch"
            /\ last'.thrower = "none"
            /\ indexed_docs = NoEntries /\ collection = EmptyCollection
            /\ doc_count = 0
            /\ last'.info.valid = last'.info.size
            /\ Cardinality(DOMAIN last'.ghost) = last'.info.size) =>
              /\ doc_count' = last'.info.size
              /\ Cardinality(DOMAIN collection'.entries) = last'.info.size
              /\ Cardinality(DOMAIN indexed_docs') = last'.info.size]_vars
    /\ [][(/\ last'.op = "index_document"
            /\ last'.thrower = "none"
            /\ ~Blank(last'.info.combined_text)
            /\ last'.info.path \notin IndexedPaths) =>
              /\ doc_count' = doc_count + 1
              /\ Cardinality(DOMAIN collection'.entries) =
                    Cardinality(DOMAIN collection.entries) + 1]_vars

\* two documents of identical content under different paths are both stored
C18_Witness ==
    /\ last.op = "index_batch"
    /\ last.info.size = 2
    /\ ~last.raised
    /\ last.ret = 2
    /\ doc_count = 2
    /\ Cardinality(DOMAIN collection.entries) = 2
    /\ \A i, j \in DOMAIN collection.entries :
          collection.entries[i].document = collection.entries[j].document

\* the order in which the claim lists the load attempts
FallbackOrder == <<"cpu", "default", "trust_remote_code">>

\* C19: within one run of the load chain the attempts are made in the order
\* CPU-pinned, default-device, compatibility; an attempt is made only if the
\* one before it failed, each at most once; a success ends the chain with
\* the model loaded, and the chain runs only while the model is not loaded.
C19_FallbackOrder ==
    /\ [](LET n == Len(last.loads)
          IN  /\ n <= Len(FallbackOrder)
              /\ \A i \in 1..n : last.loads[i].strategy = FallbackOrder[i]
              /\ \A i \in 1..n : i < n => ~last.loads[i].ok
              /\ (n > 0 /\ last.loads[n].ok) => model = "Loaded"
              /\ (n > 0 /\ ~last.loads[n].ok) =>
                    n = Len(FallbackOrder) /\ model = "None")
    /\ [][model # "None" => last'.loads = <<>> /\ model' = model]_vars

\* the first two attempts failed and the third loaded the model
C19_Witness ==
    /\ Len(last.loads) = 3
    /\ ~last.loads[1].ok /\ ~last.loads[2].ok /\ last.loads[3].ok
    /\ last.loads[3].strategy = "trust_remote_code"
    /\ model = "Loaded"

\* the call reached _ensure_model_loaded
ReachedLoad(l) ==
    \/ l.op = "index_document" /\ ~Blank(l.info.combined_text)
                               /\ l.info.path \notin IndexedPaths
    \/ l.op = "index_batch" /\ l.info.valid > 0
    \/ l.op = "search" /\ doc_count # 0

\* C20 as stated: once all three load attempts have failed for an engine, no
\* later operation on it attempts a load strategy again.
C20_FailedIsTerminalAsStated ==
    last.after_failed_load => last.loads = <<>>

\* C20: a chain that failed made exactly its three attempts and left the
\* model unloaded; no Failed state is kept, so every later operation that
\* reaches the load chain while the model is unloaded runs it again from the
\* first strategy, and may load the model.
C20_FailedIsRetried ==
    /\ [](last.thrower = "load" =>
            Len(last.loads) = Len(Strategies) /\ model = "None")
    /\ [][(model # "Loaded" /\ ReachedLoad(last')) =>
            /\ last'.loads # <<>>
            /\ last'.loads[1].strategy = Strategies[1]]_vars
    /\ [][(last'.op \in {"get_stats", "clear_index"}) =>
            last'.loads = <<>> /\ model' = model]_vars

\* after a failed chain a later call ran the chain again and loaded the model
C20_Witness ==
    /\ last.after_failed_load
    /\ last.loads # <<>>
    /\ model = "Loaded"

\* the client constructions among the calls of __init__
ClientCalls(l) == SelectSeq(l.calls, LAMBDA c : c # "get_or_create_collection")

\* the order in which the claim lists the store-client strategies
ClientOrder == <<"EphemeralClient", "Client(Settings)", "Client()">>

\* the constructor tried the clients in the claim's order, each once
TriedInOrder(l) ==
    /\ Len(ClientCalls(l)) \in 1..Len(ClientOrder)
    /\ \A i \in DOMAIN ClientCalls(l) : ClientCalls(l)[i] = ClientOrder[i]

\* C21 as stated: the constructor tries the ephemeral, the explicit-settings
\* and the default client in that order and stops at the first success; it
\* fails only if all three strategies fail, and an engine that was
\* constructed starts with doc_count = 0 and indexed_docs empty.
C21_StoreFallbackAsStated ==
    (last.op = "__init__" /\ last.calls # <<>>) =>
        /\ TriedInOrder(last)
        /\ last.raised => last.thrower = "client"
        /\ last.thrower = "client" =>
              last.raised /\ ClientCalls(last) = ClientOrder
        /\ ~last.raised => doc_count = 0 /\ indexed_docs = NoEntries

\* C21: the constructor tries the three clients in order and stops at the
\* first success; it raises when all three fail and also when
\* get_or_create_collection throws after a client was obtained; an engine
\* that was constructed starts unloaded with doc_count = 0, indexed_docs
\* empty and an empty collection.
C21_StoreFallback ==
    (last.op = "__init__" /\ last.calls # <<>>) =>
        /\ TriedInOrder(last)
        /\ last.raised <=>
              last.thrower \in {"client", "get_or_create_collection"}
        /\ last.thrower = "client" =>
              /\ ClientCalls(last) = ClientOrder
              /\ last.calls = ClientCalls(last)
        /\ last.thrower # "client" =>
              last.calls = Append(ClientCalls(last), "get_or_create_collection")
        /\ ~last.raised =>
              /\ doc_count = 0 /\ indexed_docs = NoEntries
              /\ collection = EmptyCollection /\ model = "None"

\* the first two clients failed, the third was obtained
C21_Witness ==
    /\ last.op = "__init__"
    /\ ~last.raised
    /\ last.calls = Append(ClientOrder, "get_or_create_collection")
    /\ doc_count = 0

\* C22: a get_vision_description call with use_cache on and the image's hash
\* in the cache returns the stored description, does not call the vision API
\* and leaves the cache unchanged; a value stored under a key is never
\* overwritten or removed.
C22_CacheHitSingleWrite ==
    /\ [][\A h \in DOMAIN processor.vision_cache :
            /\ h \in DOMAIN processor'.vision_cache
            /\ processor'.vision_cache[h] = processor.vision_cache[h]]_vars
    /\ [][(/\ vision_log'.op = "get_vision_description"
           /\ processor.client
           /\ vision_log'.use_cache
           /\ image_hash(vision_log'.image) \in DOMAIN processor.vision_cache) =>
              /\ ~vision_log'.api_called
              /\ vision_log'.api_calls = vision_log.api_calls
              /\ vision_log'.ret =
                    processor.vision_cache[image_hash(vision_log'.image)]
              /\ processor' = processor]_vars

\* a description cached by an API call was returned by a later call that
\* made no API call
C22_Witness ==
    /\ processor.client
    /\ vision_log.op = "get_vision_description"
    /\ vision_log.use_cache
    /\ ~vision_log.api_called
    /\ image_hash(vision_log.image) \in DOMAIN processor.vision_cache
    /\ vision_log.ret = processor.vision_cache[image_hash(vision_log.image)]
    /\ vision_log.api_calls[vision_log.image] = 1

\* the cosine distance of the query to the text of an indexed document
DistanceTo(query, id) ==
    CosineDistance(Encode(query), Encode(indexed_docs[id].combined_text))

\* the positions of the returned list that carry the metadata of document id
PositionsOf(id, ret) ==
    {i \in DOMAIN ret : ret[i][1].path = indexed_docs[id].path}

\* C25: if a and b are both in indexed_docs and the query is strictly nearer
\* to a than to b, a search with top_k at least the number of indexed
\* documents, in which no collaborator throws, returns a's metadata at an
\* earlier position than b's.
C25_NearestFirst ==
    (last.op = "search" /\ last.thrower = "none"
        /\ last.info.top_k >= Cardinality(DOMAIN indexed_docs)) =>
        \A a, b \in DOMAIN indexed_docs :
            DistanceTo(last.info.query, a) < DistanceTo(last.info.query, b) =>
                \E i \in PositionsOf(a, last.ret) :
                    \E j \in PositionsOf(b, last.ret) : i < j

\* C26: in every state reachable by single-threaded calls with arbitrary
\* collaborator failures, every id in indexed_docs has an entry in the
\* store, so a document index_document reports as already indexed is in
\* the store.
C26_DedupOracleSound ==
    /\ \A id \in DOMAIN indexed_docs :
          collection.alive /\ id \in DOMAIN collection.entries
    /\ (last.op = "index_document" /\ last.ret = TRUE) =>
          generate_doc_id(last.info.path) \in DOMAIN collection.entries

\* C27: in every state reachable by single-threaded calls with arbitrary
\* collaborator failures, doc_count is the number of entries of the
\* collection the engine queries, so the n_results of search never exceeds
\* the number of stored entries.
C27_CountMatchesStore ==
    /\ collection.alive
    /\ doc_count = Cardinality(DOMAIN collection.entries)
    /\ \A top_k \in TopKs :
          NResults(top_k, doc_count) <= Cardinality(DOMAIN collection.entries)

\* the id of the document is in indexed_docs
Known(document) == generate_doc_id(document.path) \in DOMAIN indexed_docs

\* the call o made no model load, no encode call and no store call, changed
\* nothing and did not fail
NothingDone(o) ==
    \A r \in {o} :
        /\ r.loads = <<>>
        /\ r.encodes = 0
        /\ r.calls = <<>>
        /\ r.thrower = "none"
        /\ ~r.raised
        /\ r.engine = Engine

\* C28: in every reachable state, an index_document call on a document whose
\* id is already in indexed_docs, and an index_batch call whose documents
\* with text are all already in indexed_docs, construct no model, make no
\* encode call and no store call, leave the model, doc_count, indexed_docs
\* and the store as they were, and neither raise nor end in a failed model
\* load, whatever the collaborators would have done.
C28_NoRecomputation ==
    /\ \A document \in Docs : \A plan \in IndexPlans :
          (CanLoad(plan) /\ Known(document)) =>
              NothingDone(index_document(Engine, document, plan))
    /\ \A documents \in Batches :
          ( /\ \E i \in DOMAIN documents : HasText(documents[i])
            /\ \A i \in DOMAIN documents :
                  HasText(documents[i]) => Known(documents[i]) ) =>
              \A plan \in BatchPlans :
                  (CanLoad(plan) /\ plan.encode <= Len(documents)) =>
                      NothingDone(index_batch(Engine, documents, plan))

\* a batch of two documents with text, both indexed before, has returned 0
\* without a load, an encode or a store call
C28_Witness ==
    /\ last.op = "index_batch"
    /\ last.info.valid = 2
    /\ \A path \in DOMAIN last.ghost :
          generate_doc_id(path) \in DOMAIN indexed_docs
    /\ last.info.ids = <<>>
    /\ last.ret = 0
    /\ last.loads = <<>>
    /\ last.encodes = 0
    /\ last.calls = <<>>
    /\ doc_count = 2

\* the number of entries of a collection
Stored(coll) == Cardinality(DOMAIN coll.entries)

\* C29: in every reachable state, an index_batch call that returns (does not
\* raise) returns the amount by which the call raised doc_count, which is
\* also the number of entries the call added to the store; whatever the
\* documents of the batch and whichever collaborator call failed.
C29_BatchReturnIsGain ==
    \A documents \in Batches : \A plan \in BatchPlans :
        (CanLoad(plan) /\ plan.encode <= Len(documents)) =>
            \A o \in {index_batch(Engine, documents, plan)} :
                ~o.raised =>
                    /\ o.ret = o.engine.doc_count - doc_count
                    /\ o.ret = Stored(o.engine.collection) - Stored(collection)

\* a batch of two documents with text, one of them indexed before, has
\* returned 1 and raised doc_count from 1 to 2
C29_Witness ==
    /\ last.op = "index_batch"
    /\ ~last.raised
    /\ last.info.valid = 2
    /\ Len(last.info.ids) = 1
    /\ last.ret = 1
    /\ doc_count = 2
    /\ Stored(collection) = 2

\* no collaborator call of the index_document or index_batch call throws
NoFailureSingle == [load |-> 0, encode |-> FALSE, add |-> FALSE]
NoFailureBatch == [load |-> 0, encode |-> 0, add |-> FALSE]

\* index_document called on each document of docs in order, beginning in
\* engine state acc.engine; added: the calls that added an entry to the
\* store; failed: a call ended in its except branch
RECURSIVE Singles(_, _)
Singles(docs, acc) ==
    IF docs = <<>> THEN acc
    ELSE LET o == index_document(acc.engine, Head(docs), NoFailureSingle)
         IN  Singles(Tail(docs),
                     [engine |-> o.engine,
                      added |-> acc.added +
                                  (IF o.ret = TRUE /\ o.calls = <<"add">>
                                   THEN 1 ELSE 0),
                      failed |-> acc.failed \/ o.thrower # "none"])

\* C30: in every reachable state and for every list of documents, when the
\* collaborators do not fail, index_batch on the list ends without a failure
\* exactly when index_document on each document in order does, and then both
\* leave the same doc_count, the same indexed_docs and the same store
\* entries (ids, embeddings, metadata, text), and index_batch returns the
\* number of single calls that added an entry.
C30_BatchEqualsSingles ==
    \A documents \in Batches :
        \A batch \in {index_batch(Engine, documents, NoFailureBatch)},
           singles \in {Singles(documents, [engine |-> Engine, added |-> 0,
                                            failed |-> FALSE])} :
            /\ batch.thrower = "none" <=> ~singles.failed
            /\ batch.thrower = "none" =>
                  /\ batch.engine.doc_count = singles.engine.doc_count
                  /\ batch.engine.indexed_docs = singles.engine.indexed_docs
                  /\ batch.engine.collection = singles.engine.collection
                  /\ batch.ret = singles.added

\* a batch of two documents with text under the same path was indexed
\* without failure where the other path was indexed already: the first of
\* the two was stored, as two index_document calls would have done
C30_Witness ==
    /\ last.op = "index_batch"
    /\ last.thrower = "none"
    /\ last.info.size = 2
    /\ last.info.valid = 2
    /\ Cardinality(DOMAIN last.ghost) = 1
    /\ last.ret = 1
    /\ doc_count = 2
    /\ \A path \in DOMAIN last.ghost :
          /\ generate_doc_id(path) \in DOMAIN collection.entries
          /\ indexed_docs[generate_doc_id(path)] = last.ghost[path]

\* thread t is in or has returned from a search or get_stats call, and no
\* mutating call of another thread was in progress since that call began
QuietRead(t) == threads[t].op \in {"search", "get_stats"} /\ threads[t].quiet

\* no collaborator call of the search call throws
NoFailureSearch == [load |-> 0, encode |-> FALSE, query |-> FALSE]

\* C23: while search and get_stats calls of the two threads interleave and
\* no mutating call has been in progress since they began, the model,
\* doc_count, indexed_docs and the store are as they were when the call
\* began (no read starts the model load, loaded or not); a search that has
\* returned has returned a result that search run alone on this engine
\* returns, and a get_stats that has returned has returned what get_stats
\* run alone returns.  (A thread step never raises out of search or
\* get_stats: the steps have no raising exit.)
C23_ConcurrentReadsSafe ==
    \A t \in Threads :
        QuietRead(t) =>
            /\ Engine = threads[t].began
            /\ (~Busy(t) /\ threads[t].op = "search") =>
                  \E order \in RankedOrders(collection, Encode(threads[t].query)) :
                      threads[t].ret =
                          search(Engine, threads[t].query, threads[t].top_k,
                                 NoFailureSearch, order).ret
            /\ (~Busy(t) /\ threads[t].op = "get_stats") =>
                  threads[t].ret = get_stats(Engine, FALSE).ret

\* both threads ran a search at the same time on an engine with two
\* documents, no mutating call in progress, and one has returned both
\* documents while the other is between its two reads of doc_count
C23_Witness ==
    /\ \A t \in Threads : QuietRead(t) /\ threads[t].op = "search"
    /\ doc_count = 2
    /\ threads["t1"].pc = "idle"
    /\ Len(threads["t1"].ret) = 2
    /\ threads["t2"].pc = "query"

\* doc_count, indexed_docs and the store hold the same documents
Agree ==
    /\ collection.alive
    /\ doc_count = Cardinality(DOMAIN collection.entries)
    /\ DOMAIN indexed_docs = DOMAIN collection.entries

\* no thread is inside a mutating call
NoMutationInProgress ==
    \A t \in Threads : Busy(t) => threads[t].op \notin Mutating

\* C24: doc_count, indexed_docs and the store can be left in disagreement by
\* two mutating calls whose statements interleave (the state of C24_Witness
\* is reachable), and by nothing else: as long as no two mutating calls were
\* in progress at the same time, they agree whenever no mutating call is in
\* progress.
C24_DisagreementNeedsRace ==
    (NoMutationInProgress /\ \A t \in Threads : ~threads[t].raced) => Agree

\* both threads passed the dedup check of index_document for the same path
\* and both returned true: doc_count is 2, the store and indexed_docs hold
\* one document
C24_Witness ==
    /\ \A t \in Threads :
          /\ ~Busy(t)
          /\ threads[t].op = "index_document"
          /\ threads[t].ret = TRUE
          /\ threads[t].calls = 1
          /\ threads[t].raced
    /\ doc_count = 2
    /\ Cardinality(DOMAIN collection.entries) = 1
    /\ Cardinality(DOMAIN indexed_docs) = 1
    /\ ~Agree

\* C31: in every reachable state, a search call, whatever its query and
\* top_k, whichever collaborator call fails and whether it returns results,
\* the empty list, or the empty list after a swallowed exception, leaves
\* doc_count, indexed_docs and the store as they were; the model is as it
\* was or has gone from not loaded to loaded.
C31_SearchReadOnly ==
    \A query \in Queries, top_k \in TopKs : \A plan \in SearchPlans :
        CanLoad(plan) =>
            \A order \in RankedOrders(collection, Encode(query)) :
                \A o \in {search(Engine, query, top_k, plan, order)} :
                    /\ o.engine.doc_count = doc_count
                    /\ o.engine.indexed_docs = indexed_docs
                    /\ o.engine.collection = collection
                    /\ \/ o.engine.model = model
                       \/ model = "None" /\ o.engine.model = "Loaded"

\* a search on an index of two documents swallowed the exception of the
\* store query and returned the empty list; the two documents are still
\* counted, tracked and stored
C31_Witness ==
    /\ last.op = "search"
    /\ last.thrower = "query"
    /\ ~last.raised
    /\ last.ret = <<>>
    /\ doc_count = 2
    /\ Cardinality(DOMAIN indexed_docs) = 2
    /\ Stored(collection) = 2

\* the call o made no load attempt and left the model loaded
StaysLoaded(o) == \A r \in {o} : r.loads = <<>> /\ r.engine.model = "Loaded"

\* C32: the model is either not loaded or loaded, and in every reachable
\* state in which it is loaded, every call of index_document, index_batch,
\* search, clear_index and get_stats, whatever its arguments and whichever
\* collaborator call fails, makes no load attempt and leaves the model
\* loaded.
C32_LoadedIsAbsorbing ==
    /\ model \in {"None", "Loaded"}
    /\ model = "Loaded" =>
          /\ \A document \in Docs : \A plan \in IndexPlans :
                CanLoad(plan) =>
                    StaysLoaded(index_document(Engine, document, plan))
          /\ \A documents \in Batches : \A plan \in BatchPlans :
                (CanLoad(plan) /\ plan.encode <= Len(documents)) =>
                    StaysLoaded(index_batch(Engine, documents, plan))
          /\ \A query \in Queries, top_k \in TopKs : \A plan \in SearchPlans :
                CanLoad(plan) =>
                    \A order \in RankedOrders(collection, Encode(query)) :
                        StaysLoaded(search(Engine, query, top_k, plan, order))
          /\ \A plan \in ClearPlans : StaysLoaded(clear_index(Engine, plan))
          /\ \A dimThrows \in BOOLEAN : StaysLoaded(get_stats(Engine, dimThrows))

\* clear_index emptied an index of two documents and the model is still
\* loaded
C32_Witness ==
    /\ last.op = "clear_index"
    /\ last.thrower = "none"
    /\ last.info.count_before = 2
    /\ last.loads = <<>>
    /\ doc_count = 0
    /\ indexed_docs = NoEntries
    /\ model = "Loaded"

\* the call before this one returned the fallback description for the image
\* this call is about
AfterFallback ==
    /\ vision_log.op = "get_vision_description"
    /\ vision_log.ret = FallbackDescription
    /\ vision_log'.op = "get_vision_description"
    /\ vision_log'.image = vision_log.image

\* C33 as stated: the cache holds only descriptions the API returned, a call
\* without a client or with a failing API call returns the fallback and
\* leaves the cache unchanged, and the call for the same image content that
\* follows a call that returned the fallback calls the API.
C33_FallbackNeverCachedAsStated ==
    /\ [](\A h \in DOMAIN processor.vision_cache :
            processor.vision_cache[h] \in Descriptions)
    /\ [][(vision_log'.op = "get_vision_description"
             /\ (~processor.client \/ vision_log'.api = "fail")) =>
            /\ vision_log'.ret = FallbackDescription
            /\ processor' = processor]_vars
    /\ [][AfterFallback => vision_log'.api_called]_vars

\* C33: the cache holds only descriptions the API returned; a call without a
\* client or with a failing API call returns the fallback and leaves the
\* cache unchanged; the call for the same image content that follows a call
\* that returned the fallback calls the API when the processor has a client
\* and the call is not served a description that an earlier successful call
\* cached (use_cache on and the content hash in the cache); otherwise it
\* calls no API, and with a client it returns that cached description, never
\* the fallback.
C33_FallbackNeverCached ==
    /\ [](\A h \in DOMAIN processor.vision_cache :
            processor.vision_cache[h] \in Descriptions)
    /\ [][(vision_log'.op = "get_vision_description"
             /\ (~processor.client \/ vision_log'.api = "fail")) =>
            /\ vision_log'.ret = FallbackDescription
            /\ processor' = processor]_vars
    /\ [][AfterFallback =>
            /\ vision_log'.api_called =
                  (processor.client
                     /\ ~(vision_log'.use_cache
                            /\ image_hash(vision_log'.image)
                                  \in DOMAIN processor.vision_cache))
            /\ (~vision_log'.api_called /\ processor.client) =>
                  vision_log'.ret \in Descriptions]_vars

\* an API call failed for an image and returned the fallback; the call that
\* followed for the same content called the API again and cached its answer
C33_Witness ==
    /\ processor.client
    /\ vision_log.op = "get_vision_description"
    /\ vision_log.use_cache
    /\ vision_log.api_called
    /\ vision_log.api_failed[vision_log.image] = 1
    /\ vision_log.api_calls[vision_log.image] = 2
    /\ vision_log.ret \in Descriptions
    /\ image_hash(vision_log.image) \in DOMAIN processor.vision_cache
    /\ processor.vision_cache[image_hash(vision_log.image)] = vision_log.ret

\* preview is the text when the text has at most PreviewLen characters, and
\* its first PreviewLen characters otherwise
IsPreviewOf(preview, text) ==
    /\ Len(preview) = Min(Len(text), PreviewLen)
    /\ \A i \in DOMAIN preview : preview[i] = text[i]

\* C34: every entry of the store belongs to a document tracked in
\* indexed_docs, and its metadata carries that document's path and
\* filename, as ocr_text_preview and vision_preview the first 500
\* characters of ocr_text and vision_description (the whole field when it
\* is shorter, empty when it is empty), has_ocr and has_vision true exactly
\* when the field is not empty; the stored text is the whole combined_text.
C34_MetadataConstruction ==
    \A id \in DOMAIN collection.entries :
        /\ id \in DOMAIN indexed_docs
        /\ LET entry == collection.entries[id]
               document == indexed_docs[id]
           IN  /\ entry.metadata.path = document.path
               /\ entry.metadata.filename = document.filename
               /\ IsPreviewOf(entry.metadata.ocr_text_preview, document.ocr_text)
               /\ IsPreviewOf(entry.metadata.vision_preview,
                              document.vision_description)
               /\ entry.metadata.has_ocr = (Len(document.ocr_text) > 0)
               /\ entry.metadata.has_vision =
                     (Len(document.vision_description) > 0)
               /\ entry.document = document.combined_text

\* index_batch added two documents: one whose OCR text of 501 characters is
\* stored as a preview of 500 with no description, one without OCR text
\* whose description of 501 characters is stored as a preview of 500
C34_Witness ==
    /\ last.op = "index_batch"
    /\ last.thrower = "none"
    /\ last.ret = 2
    /\ \E id \in DOMAIN collection.entries :
          /\ Len(indexed_docs[id].ocr_text) = PreviewLen + 1
          /\ Len(collection.entries[id].metadata.ocr_text_preview) = PreviewLen
          /\ ~collection.entries[id].metadata.has_vision
          /\ collection.entries[id].metadata.vision_preview = <<>>
    /\ \E id \in DOMAIN collection.entries :
          /\ Len(indexed_docs[id].vision_description) = PreviewLen + 1
          /\ Len(collection.entries[id].metadata.vision_preview) = PreviewLen
          /\ ~collection.entries[id].metadata.has_ocr
          /\ Len(collection.entries[id].document) = PreviewLen + 3

====
